---- MODULE Spec2Model ----
(***************************************************************************)
(* A model of server.js: an HTTP facade over yt-dlp.  POST /api/download   *)
(* validates a request and either resolves a direct media URL or extracts  *)
(* an mp3 into /tmp and answers with a link; GET /file/:id streams such a  *)
(* file and unlinks it when the stream closes; a timer sweeps old .mp3     *)
(* files out of /tmp.                                                      *)
(*                                                                         *)
(* JavaScript strings are sequences of one-character strings, so that      *)
(* toLowerCase, replace, split, slice and the URL parser are computed the  *)
(* way the code computes them.  The handlers run to completion on the one  *)
(* JavaScript thread; what runs beside them is the libuv thread pool       *)
(* (fs.unlink, the opening of a read stream), the yt-dlp child process,    *)
(* and the clock.  A synchronous handler is one action; where it reads the *)
(* file system twice, an unlink already in flight may complete between the *)
(* two reads, and the action draws that outcome with \E.                   *)
(*                                                                         *)
(* Times are in minutes and measured from the present: Date.now() is 0 and *)
(* the mtime of a file is minus its age.  The sweep compares an age with   *)
(* 30 minutes and nothing else reads a time, so an age beyond Horizon is   *)
(* kept as Horizon.                                                        *)
(***************************************************************************)
EXTENDS Integers, Sequences, FiniteSets, Bags, TLC

\* ------------------------------------------------------------ bounds
\* number of distinct ids nanoid is taken to return
MaxIds == 2
\* requests that may be awaiting yt-dlp at the same time
MaxInflight == 1
\* read streams that may be open on one file at the same time
MaxStreams == 1
\* lines of a yt-dlp output
MaxLines == 2
\* clients, told apart by the address the limiter keys on
MaxClients == 2
\* requests a client sends in one window beyond those the limiter lets through
MaxOver == 2

\* ------------------------------------------------- program constants
\* nanoid(10)
IdLen == 10
\* String(msg).slice(0, 400)
MsgLimit == 400
\* age > 30 * 60 * 1000, in minutes
MaxAgeMin == 30
\* setInterval(..., 10 * 60 * 1000), in minutes
SweepEveryMin == 10
\* rateLimit({ max: 15 })
RateMax == 15

\* ------------------------------------------------------------ strings
UpperAlpha == <<"A","B","C","D","E","F","G","H","I","J","K","L","M","N","O","P","Q","R","S","T","U","V","W","X","Y","Z">>
LowerAlpha == <<"a","b","c","d","e","f","g","h","i","j","k","l","m","n","o","p","q","r","s","t","u","v","w","x","y","z">>
Digits == <<"0","1","2","3","4","5","6","7","8","9">>

Range(s) == {s[i] : i \in DOMAIN s}

\* position of the first (last) character of s that is in C, 0 if there is none
FirstIdx(s, C) ==
  IF \E i \in DOMAIN s : s[i] \in C
  THEN CHOOSE i \in DOMAIN s : s[i] \in C /\ \A j \in 1..(i - 1) : s[j] \notin C
  ELSE 0

LastIdx(s, C) ==
  IF \E i \in DOMAIN s : s[i] \in C
  THEN CHOOSE i \in DOMAIN s : s[i] \in C /\ \A j \in (i + 1)..Len(s) : s[j] \notin C
  ELSE 0

LowerChar(c) ==
  IF c \in Range(UpperAlpha) THEN LowerAlpha[FirstIdx(UpperAlpha, {c})] ELSE c

\* String.prototype.toLowerCase
toLowerCase(s) == [i \in 1..Len(s) |-> LowerChar(s[i])]

\* String.prototype.endsWith
endsWith(s, suffix) ==
  /\ Len(s) >= Len(suffix)
  /\ SubSeq(s, Len(s) - Len(suffix) + 1, Len(s)) = suffix

\* slice0 with the bound off by one: the character at index n is kept too
slice0Inclusive(s, n) == SubSeq(s, 1, IF Len(s) < n + 1 THEN Len(s) ELSE n + 1)

\* String.prototype.slice(0, n)
slice0(s, n) == SubSeq(s, 1, IF Len(s) < n THEN Len(s) ELSE n)

\* a string of n characters, no two neighbours alike
Filler(n) == [i \in 1..n |-> Digits[(i % 10) + 1]]

\* --------------------------------------------------------- JSON values
\* A value of the parsed body or a header: undefined, a string, a non-zero
\* number (s is its decimal text) or a one-element array of a string (s is
\* that string, which is also what String() makes of the array).
Undefined == [t |-> "undefined", s |-> <<>>]
Str(s) == [t |-> "string", s |-> s]
Num(s) == [t |-> "number", s |-> s]
Arr(s) == [t |-> "array", s |-> s]

\* ToBoolean
Truthy(v) ==
  CASE v.t = "undefined" -> FALSE
    [] v.t = "string" -> v.s # <<>>
    [] OTHER -> TRUE

\* String(v)
String(v) == IF v.t = "undefined" THEN <<"u","n","d","e","f","i","n","e","d">> ELSE v.s

\* v || d
OrElse(v, d) == IF Truthy(v) THEN v ELSE d

\* ---------------------------------------------------------- validator
ALLOWED_PLATFORMS == {<<"y","o","u","t","u","b","e">>, <<"i","n","s","t","a","g","r","a","m">>, <<"t","i","k","t","o","k">>, <<"t","w","i","t","t","e","r">>}

ALLOWED_HOSTS ==
  { <<"y","o","u","t","u","b","e",".","c","o","m">>, <<"w","w","w",".","y","o","u","t","u","b","e",".","c","o","m">>, <<"y","o","u","t","u",".","b","e">>,
    <<"i","n","s","t","a","g","r","a","m",".","c","o","m">>, <<"w","w","w",".","i","n","s","t","a","g","r","a","m",".","c","o","m">>,
    <<"t","i","k","t","o","k",".","c","o","m">>, <<"w","w","w",".","t","i","k","t","o","k",".","c","o","m">>,
    <<"t","w","i","t","t","e","r",".","c","o","m">>, <<"w","w","w",".","t","w","i","t","t","e","r",".","c","o","m">>, <<"x",".","c","o","m">>, <<"w","w","w",".","x",".","c","o","m">> }

SpecialSchemes == {<<"h","t","t","p">>, <<"h","t","t","p","s">>, <<"f","t","p">>, <<"w","s">>, <<"w","s","s">>}

\* new URL(s) for s of the shape scheme ":" ["//" [userinfo "@"] host [":" port]]
\* rest: ok is FALSE where the constructor throws.
ParseUrl(s) ==
  LET colon == FirstIdx(s, {":"})
      scheme == toLowerCase(SubSeq(s, 1, colon - 1))
      schemeOk ==
        /\ colon > 1
        /\ scheme[1] \in Range(LowerAlpha)
        /\ \A i \in 2..Len(scheme) :
             scheme[i] \in Range(LowerAlpha) \cup Range(Digits) \cup {"+", "-", "."}
      rest == SubSeq(s, colon + 1, Len(s))
      hasAuthority == Len(rest) >= 2 /\ rest[1] = "/" /\ rest[2] = "/"
      after == SubSeq(rest, 3, Len(rest))
      stop == FirstIdx(after, {"/", "?", "#"})
      authority == IF stop = 0 THEN after ELSE SubSeq(after, 1, stop - 1)
      at == LastIdx(authority, {"@"})
      hostport == SubSeq(authority, at + 1, Len(authority))
      portAt == FirstIdx(hostport, {":"})
      host == IF portAt = 0 THEN hostport ELSE SubSeq(hostport, 1, portAt - 1)
      special == scheme \in SpecialSchemes
  IN  IF ~schemeOk THEN [ok |-> FALSE, hostname |-> <<>>]
      ELSE IF ~hasAuthority THEN [ok |-> ~special, hostname |-> <<>>]
      ELSE IF special /\ host = <<>> THEN [ok |-> FALSE, hostname |-> <<>>]
      ELSE [ok |-> TRUE, hostname |-> IF special THEN toLowerCase(host) ELSE host]

\* isAllowedUrl that looks for an allowed host anywhere in the string
isAllowedUrlAnywhere(u) ==
  LET s == toLowerCase(String(u))
  IN  \E h \in ALLOWED_HOSTS :
        \E i \in 1..Len(s) :
          i + Len(h) - 1 <= Len(s) /\ SubSeq(s, i, i + Len(h) - 1) = h

isAllowedUrl(u) ==
  LET url == ParseUrl(String(u))
  IN  IF url.ok THEN toLowerCase(url.hostname) \in ALLOWED_HOSTS ELSE FALSE

\* publicBase without the forwarded host: the Host header alone
publicBaseHostOnly(headers) ==
  String(OrElse(headers.xfproto, Str(<<"h","t","t","p","s">>))) \o <<":","/","/">>
    \o String(OrElse(headers.host, Str(<<>>)))

\* req.headers of a request: x-forwarded-proto, x-forwarded-host, host
publicBase(headers) ==
  LET proto == String(OrElse(headers.xfproto, Str(<<"h","t","t","p","s">>)))
      host == String(OrElse(OrElse(headers.xfhost, headers.host), Str(<<>>)))
  IN  proto \o <<":","/","/">> \o host

\* ------------------------------------------------------------- inputs
Platforms == {Undefined, Str(<<"Y","o","u","T","u","b","e">>), Str(<<"v","i","m","e","o">>), Arr(<<"t","i","k","t","o","k">>)}

Urls ==
  { Undefined, Str(<<"h","t","t","p","s",":","/","/","y","o","u","t","u",".","b","e","/","a","b","c","1","2","3">>), Str(<<"H","T","T","P","S",":","/","/","W","W","W",".","Y","o","u","T","u","b","e",".","c","o","m","/","w">>),
    Str(<<"h","t","t","p","s",":","/","/","e","v","i","l",".","c","o","m","/","y","o","u","t","u",".","b","e">>), Str(<<"h","t","t","p","s",":","/","/","y","o","u","t","u",".","b","e","@","e","v","i","l",".","c","o","m","/">>),
    Str(<<"y","o","u","t","u",".","b","e","/","a","b","c","1","2","3">>) }

Formats == {Undefined, Str(<<"M","P","3">>), Str(<<"w","e","b","m">>), Num(<<"5">>)}

Qualities == {Undefined, Str(<<"h","i","g","h","e","s","t">>)}

\* req.body || {}: the body without any field is the absent body
Bodies == [platform : Platforms, url : Urls, format : Formats, quality : Qualities]

NoBody == [platform |-> Undefined, url |-> Undefined, format |-> Undefined,
           quality |-> Undefined]

\* the mp3 request a client sends while files are served and swept
CoreBodies ==
  { [platform |-> Str(<<"Y","o","u","T","u","b","e">>), url |-> Str(<<"h","t","t","p","s",":","/","/","y","o","u","t","u",".","b","e","/","a","b","c","1","2","3">>),
     format |-> Str(<<"M","P","3">>), quality |-> Undefined] }

HeaderSets ==
  [xfproto : {Undefined, Str(<<"h","t","t","p">>)}, xfhost : {Undefined, Str(<<"c","d","n",".","i","o">>)},
   host : {Undefined, Str(<<"a","p","i",".","i","o">>)}]

\* the headers of that request: behind a proxy, with a Host alone, with none
CoreHeaders ==
  { [xfproto |-> Str(<<"h","t","t","p">>), xfhost |-> Str(<<"c","d","n",".","i","o">>), host |-> Str(<<"a","p","i",".","i","o">>)],
    [xfproto |-> Undefined, xfhost |-> Undefined, host |-> Str(<<"a","p","i",".","i","o">>)],
    [xfproto |-> Undefined, xfhost |-> Undefined, host |-> Undefined] }

\* the keys of the limiter: req.ip
Clients == 1..MaxClients

NoHeaders == [xfproto |-> Undefined, xfhost |-> Undefined, host |-> Undefined]

\* the alphabet of nanoid, which is also what the file route keeps of an id
UrlAlphabet == Range(UpperAlpha) \cup Range(LowerAlpha) \cup Range(Digits) \cup {"_", "-"}

IdStem == <<"V","1","-","t","G","X","R","8","_">>

\* the k-th id nanoid(10) is taken to return
NanoId(k) ==
  [i \in 1..IdLen |-> IF i < IdLen THEN IdStem[((i - 1) % Len(IdStem)) + 1]
                      ELSE LowerAlpha[k]]

NanoIds == {NanoId(k) : k \in 1..MaxIds}

\* req.params.id of the file route
GetIds == NanoIds \cup {<<".",".","/",".",".","/","e","t","c","/","p","a","s","s","w","d">>, <<".","/">> \o NanoId(1) \o <<"/",".">>}

\* what yt-dlp reports when it fails: the rejection's stderr and message
ToolErrors ==
  { [stderr |-> Str(Filler(MsgLimit + 1)), message |-> Str(<<"C","o","m","m","a","n","d"," ","f","a","i","l","e","d">>)],
    [stderr |-> Str(Filler(MsgLimit)), message |-> Str(<<"C","o","m","m","a","n","d"," ","f","a","i","l","e","d">>)],
    [stderr |-> Str(<<>>), message |-> Str(<<"C","o","m","m","a","n","d"," ","f","a","i","l","e","d">>)],
    [stderr |-> Undefined, message |-> Undefined] }

CoreErrors == {e \in ToolErrors : e.stderr = Str(<<>>)}

NoError == [stderr |-> Undefined, message |-> Undefined]

TypeError == [stderr |-> Undefined,
              message |-> Str(<<"(","f","o","r","m","a","t"," ","|","|"," ","\"","m","p","4","\"",")",".","t","o","L","o","w","e","r","C","a","s","e"," ","i","s"," ","n","o","t"," ","a"," ","f","u","n","c","t","i","o","n">>)]

ENOENT == [stderr |-> Undefined,
           message |-> Str(<<"E","N","O","E","N","T",":"," ","n","o"," ","s","u","c","h"," ","f","i","l","e"," ","o","r"," ","d","i","r","e","c","t","o","r","y",","," ","s","t","a","t">>)]

OutputLines == {<<>>, <<"h","t","t","p","s",":","/","/","a",".","b","/","v">>, <<"H","T","T","P",":","/","/","c",".","d","/","w">>, <<"s","e","e"," ","h","t","t","p","s",":","/","/","e",".","f">>, <<"f","t","p",":","/","/","g",".","h">>}

RECURSIVE Join(_, _)
Join(lines, sep) ==
  IF lines = <<>> THEN <<>>
  ELSE IF Len(lines) = 1 THEN lines[1]
  ELSE lines[1] \o sep \o Join(Tail(lines), sep)

\* the texts yt-dlp prints on the resolve path
Outputs ==
  { Join(ls, sep) : ls \in UNION {[1..n -> OutputLines] : n \in 0..MaxLines},
                    sep \in {<<"\n">>, <<"\r","\n">>} }

\* ------------------------------------------------------------- files
\* `/tmp/${id}.mp3`
outFile(id) == <<"/","t","m","p","/">> \o id \o <<".","m","p","3">>

\* Sanitize as a deny-list: the slashes alone are removed
SanitizeSlashes(id) == SelectSeq(id, LAMBDA c : c # "/")

\* req.params.id.replace(/[^a-zA-Z0-9_-]/g, "")
Sanitize(id) == SelectSeq(id, LAMBDA c : c \in UrlAlphabet)

\* path.join(dir, f)
pathJoin(dir, f) == dir \o <<"/">> \o f

\* Date.now()
DateNow == 0

\* ages are followed up to one sweep interval past the age the sweep deletes at
Horizon == MaxAgeMin + SweepEveryMin

NoFile == [exists |-> FALSE, size |-> 0, mtime |-> 0]

\* the paths the model follows: the temp files, one file of /tmp that is no
\* .mp3, and one file outside /tmp
Paths ==
  {outFile(Sanitize(g)) : g \in GetIds} \cup {<<"/","t","m","p","/","n","o","t","e","s",".","t","x","t">>, <<"/","e","t","c","/","p","a","s","s","w","d">>}

VARIABLES
  fs,              \* path -> [exists, size (0: empty, 1: not empty), mtime]
  streamed,        \* the paths on which a read stream was ever started
  streams,         \* path -> read streams now open on it
  unlinks,         \* the paths with an fs.unlink in flight
  inflight,        \* bag of the requests awaiting yt-dlp: [req, id]
  last,            \* the request dealt with last and its response (status 0:
                   \* none yet, the handler awaits yt-dlp)
  up,              \* the process has not died of an uncaught error
  timer,           \* minutes until the interval timer fires
  totalHits,            \* client -> its requests counted in the limiter's current window
  stalled          \* the paths with a read stream that its client left and that
                   \* stays open, paused, for the life of the process

vars == <<fs, streamed, streams, unlinks, inflight, last, up, timer, totalHits, stalled>>

Exists(p) == p \in DOMAIN fs /\ fs[p].exists

\* fs.readdirSync(dir): the names of the entries of dir
readdirSync(dir) ==
  { SubSeq(p, Len(dir) + 2, Len(p)) :
      p \in { q \in DOMAIN fs :
                /\ fs[q].exists
                /\ Len(q) > Len(dir) + 1
                /\ SubSeq(q, 1, Len(dir) + 1) = dir \o <<"/">>
                /\ "/" \notin Range(SubSeq(q, Len(dir) + 2, Len(q))) } }

\* --------------------------------------------------------- responses
NoReply ==
  [route |-> "none", param |-> <<>>, req |-> NoBody, headers |-> NoHeaders,
   id |-> <<>>,
   status |-> 0, success |-> "none", message |-> <<>>, downloadUrl |-> <<>>,
   contentType |-> <<>>, disposition |-> <<>>, path |-> <<>>,
   thrown |-> FALSE, err |-> NoError]

\* res.status(status).json({success, message}) / res.json({success, downloadUrl})
Json(b, status, success, message, downloadUrl) ==
  [NoReply EXCEPT !.route = "download", !.req = b, !.status = status,
                  !.success = success, !.message = message,
                  !.downloadUrl = downloadUrl]

\* the handler awaits yt-dlp for the request of body b, with id as its nanoid
Awaiting(b, id) == [NoReply EXCEPT !.route = "download", !.req = b, !.id = id]

\* the catch block of the download handler
Caught(b, err) ==
  LET msg == OrElse(OrElse(err.stderr, err.message), Str(<<"S","e","r","v","e","r"," ","e","r","r","o","r">>))
  IN  [Json(b, 500, "false", slice0(String(msg), MsgLimit), <<>>)
         EXCEPT !.thrown = TRUE, !.err = err]

Init ==
  /\ fs = [p \in Paths |->
             IF p \in {<<"/","t","m","p","/","n","o","t","e","s",".","t","x","t">>, <<"/","e","t","c","/","p","a","s","s","w","d">>}
             THEN [exists |-> TRUE, size |-> 1, mtime |-> -Horizon] ELSE NoFile]
  /\ streamed = {}
  /\ streams = [p \in Paths |-> 0]
  /\ unlinks = {}
  /\ inflight = EmptyBag
  /\ last = NoReply
  /\ up = TRUE
  /\ timer = SweepEveryMin
  /\ totalHits = [c \in Clients |-> 0]
  /\ stalled = {}

\* ------------------------------------------------ POST /api/download
\* String.prototype.split(/\r?\n/)
RECURSIVE split(_)
split(s) ==
  LET nl == FirstIdx(s, {"\n"})
      cut == IF nl > 1 /\ s[nl - 1] = "\r" THEN nl - 2 ELSE nl - 1
  IN  IF nl = 0 THEN <<s>>
      ELSE <<SubSeq(s, 1, cut)>> \o split(SubSeq(s, nl + 1, Len(s)))

\* /^https?:\/\//i.test(l)
isHttp(l) ==
  LET low == toLowerCase(l)
  IN  \/ SubSeq(low, 1, 7) = <<"h","t","t","p",":","/","/">>
      \/ SubSeq(low, 1, 8) = <<"h","t","t","p","s",":","/","/">>

\* find that takes the last line that matches
findLast(lines) ==
  LET hits == SelectSeq(lines, isHttp)
  IN  IF hits = <<>> THEN [found |-> FALSE, line |-> <<>>]
      ELSE [found |-> TRUE, line |-> hits[Len(hits)]]

\* lines.find((l) => /^https?:\/\//i.test(l)): the first line that matches;
\* found is FALSE for undefined
find(lines) ==
  LET hits == SelectSeq(lines, isHttp)
  IN  IF hits = <<>> THEN [found |-> FALSE, line |-> <<>>]
      ELSE [found |-> TRUE, line |-> hits[1]]

\* String(out || "").split(/\r?\n/).filter(Boolean), then the first http line
firstDirect(out) ==
  LET lines == SelectSeq(split(String(OrElse(Str(out), Str(<<>>)))),
                         LAMBDA l : l # <<>>)
  IN  find(lines)

Pending(t) == BagIn(t, inflight)

Await(t) == inflight' = inflight (+) SetToBag({t})

Resume(t) == inflight' = inflight (-) SetToBag({t})

\* PostDownload with the direct path taken for mp4 alone: any other format,
\* an unknown one too, goes the mp3 way
PostDownloadMp4Only(b) ==
  /\ up
  /\ LET platform == toLowerCase(String(OrElse(b.platform, Str(<<>>))))
         fmt == OrElse(b.format, Str(<<"m","p","4">>))
     IN  IF fmt.t # "string"
         THEN /\ last' = Caught(b, TypeError)
              /\ UNCHANGED inflight
         ELSE IF platform \notin ALLOWED_PLATFORMS
         THEN /\ last' = Json(b, 400, "false", <<"I","n","v","a","l","i","d"," ","p","l","a","t","f","o","r","m",".">>, <<>>)
              /\ UNCHANGED inflight
         ELSE IF ~isAllowedUrl(b.url)
         THEN /\ last' = Json(b, 400, "false", <<"I","n","v","a","l","i","d","/","u","n","s","u","p","p","o","r","t","e","d"," ","U","R","L",".">>, <<>>)
              /\ UNCHANGED inflight
         ELSE /\ BagCardinality(inflight) < MaxInflight
              /\ IF toLowerCase(fmt.s) = <<"m","p","4">>
                 THEN /\ Await([req |-> b, id |-> <<>>])
                      /\ last' = Awaiting(b, <<>>)
                 ELSE \E id \in NanoIds : /\ Await([req |-> b, id |-> id])
                                          /\ last' = Awaiting(b, id)
  /\ UNCHANGED <<fs, streamed, streams, unlinks, up, timer, stalled>>

\* the handler up to its first await: normalisation, validation, nanoid
PostDownload(b) ==
  /\ up
  /\ LET platform == toLowerCase(String(OrElse(b.platform, Str(<<>>))))
         fmt == OrElse(b.format, Str(<<"m","p","4">>))
     IN  IF fmt.t # "string"
         THEN /\ last' = Caught(b, TypeError)
              /\ UNCHANGED inflight
         ELSE IF platform \notin ALLOWED_PLATFORMS
         THEN /\ last' = Json(b, 400, "false", <<"I","n","v","a","l","i","d"," ","p","l","a","t","f","o","r","m",".">>, <<>>)
              /\ UNCHANGED inflight
         ELSE IF ~isAllowedUrl(b.url)
         THEN /\ last' = Json(b, 400, "false", <<"I","n","v","a","l","i","d","/","u","n","s","u","p","p","o","r","t","e","d"," ","U","R","L",".">>, <<>>)
              /\ UNCHANGED inflight
         ELSE /\ BagCardinality(inflight) < MaxInflight
              /\ IF toLowerCase(fmt.s) # <<"m","p","3">>
                 THEN /\ Await([req |-> b, id |-> <<>>])
                      /\ last' = Awaiting(b, <<>>)
                 ELSE \E id \in NanoIds : /\ Await([req |-> b, id |-> id])
                                          /\ last' = Awaiting(b, id)
  /\ UNCHANGED <<fs, streamed, streams, unlinks, up, timer, stalled>>

\* yt-dlp returns on the resolve path
ResolveReturn(t, out) ==
  /\ up /\ Pending(t) /\ t.id = <<>>
  /\ Resume(t)
  /\ LET direct == firstDirect(out)
     IN  last' = IF ~direct.found
                 THEN Json(t.req, 200, "false", <<"C","o","u","l","d"," ","n","o","t"," ","r","e","s","o","l","v","e"," ","m","e","d","i","a"," ","U","R","L",".">>, <<>>)
                 ELSE Json(t.req, 200, "true", <<>>, direct.line)
  /\ UNCHANGED <<fs, streamed, streams, unlinks, up, timer, totalHits, stalled>>

\* yt-dlp fails on the resolve path
ResolveThrow(t, err) ==
  /\ up /\ Pending(t) /\ t.id = <<>>
  /\ Resume(t)
  /\ last' = Caught(t.req, err)
  /\ UNCHANGED <<fs, streamed, streams, unlinks, up, timer, totalHits, stalled>>

\* the yt-dlp child of an mp3 request writes its output file
ExtractorWrite(t, size) ==
  /\ Pending(t) /\ t.id # <<>>
  /\ LET f == [exists |-> TRUE, size |-> size, mtime |-> DateNow]
     IN  /\ fs[outFile(t.id)] # f
         /\ fs' = [fs EXCEPT ![outFile(t.id)] = f]
  /\ UNCHANGED <<streamed, streams, unlinks, inflight, last, up, timer, totalHits, stalled>>

\* the fs.unlink in flight on p completes and the file is gone
Completed(p) ==
  /\ p \in unlinks
  /\ unlinks' = unlinks \ {p}
  /\ fs' = [fs EXCEPT ![p] = NoFile]

\* yt-dlp returns on the mp3 path: the file is checked and the link given.
\* raced: an unlink in flight removes the file between existsSync and statSync.
ExtractReturn(t, headers, raced) ==
  /\ up /\ Pending(t) /\ t.id # <<>>
  /\ Resume(t)
  /\ LET file == outFile(t.id)
     IN  IF ~Exists(file)
         THEN /\ ~raced
              /\ last' = [Json(t.req, 200, "false", <<"M","P","3"," ","c","o","n","v","e","r","s","i","o","n"," ","f","a","i","l","e","d",".">>, <<>>)
                            EXCEPT !.id = t.id]
              /\ UNCHANGED <<fs, unlinks>>
         ELSE IF raced
         THEN /\ Completed(file)
              /\ last' = [Caught(t.req, ENOENT) EXCEPT !.id = t.id]
         ELSE /\ last' =
                   IF fs[file].size = 0
                   THEN [Json(t.req, 200, "false", <<"M","P","3"," ","c","o","n","v","e","r","s","i","o","n"," ","f","a","i","l","e","d",".">>, <<>>)
                           EXCEPT !.id = t.id]
                   ELSE [Json(t.req, 200, "true", <<>>,
                              publicBase(headers) \o <<"/","f","i","l","e","/">> \o t.id)
                           EXCEPT !.id = t.id, !.headers = headers]
              /\ UNCHANGED <<fs, unlinks>>
  /\ UNCHANGED <<streamed, streams, up, timer, totalHits, stalled>>

\* yt-dlp fails on the mp3 path
ExtractThrow(t, err) ==
  /\ up /\ Pending(t) /\ t.id # <<>>
  /\ Resume(t)
  /\ last' = [Caught(t.req, err) EXCEPT !.id = t.id]
  /\ UNCHANGED <<fs, streamed, streams, unlinks, up, timer, totalHits, stalled>>

\* ---------------------------------------------------- GET /file/:id
\* The handler and the opening of its read stream.  raced: an unlink in flight
\* removes the file between existsSync and the open; the stream then emits
\* 'error', which has no listener, and the process dies.
FileGet(g, raced) ==
  /\ up
  /\ LET id == Sanitize(g)
         file == outFile(id)
         reply == [NoReply EXCEPT !.route = "file", !.param = g, !.path = file]
     IN  IF ~Exists(file)
         THEN /\ ~raced
              /\ last' = [reply EXCEPT !.status = 404, !.message = <<"F","i","l","e"," ","n","o","t"," ","f","o","u","n","d">>]
              /\ UNCHANGED <<fs, streamed, streams, unlinks, up>>
         ELSE IF raced
         THEN /\ Completed(file)
              /\ up' = FALSE
              /\ UNCHANGED <<streamed, streams, last>>
         ELSE /\ streams[file] < MaxStreams
              /\ streams' = [streams EXCEPT ![file] = @ + 1]
              /\ streamed' = streamed \cup {file}
              /\ last' = [reply EXCEPT !.status = 200,
                                       !.contentType = <<"a","u","d","i","o","/","m","p","e","g">>,
                                       !.disposition = id \o <<".","m","p","3">>]
              /\ UNCHANGED <<fs, unlinks, up>>
  /\ UNCHANGED <<inflight, timer, stalled>>

\* stream.on("close"): fs.unlink(file, () => {})
StreamClose(p) ==
  /\ up
  /\ streams[p] > 0
  /\ streams' = [streams EXCEPT ![p] = @ - 1]
  /\ unlinks' = unlinks \cup {p}
  /\ UNCHANGED <<fs, streamed, inflight, last, up, timer, totalHits, stalled>>

\* an fs.unlink completes in the thread pool; on a missing file it fails and
\* the empty callback drops the error
UnlinkDone(p) ==
  /\ up
  /\ Completed(p)
  /\ UNCHANGED <<streamed, streams, inflight, last, up, timer, totalHits, stalled>>

\* ------------------------------------------------------------ janitor
\* the orders in which readdirSync may list the names of S
Orders(S) ==
  { o \in [1..Cardinality(S) -> S] : \A i, j \in DOMAIN o : o[i] = o[j] => i = j }

\* Stale with >= for >: a file of exactly 30 minutes is deleted too
StaleAtThreshold(now, mtime) == now - mtime >= MaxAgeMin

\* age > 30 * 60 * 1000
Stale(now, mtime) == now - mtime > MaxAgeMin

\* .filter((f) => f.endsWith(".mp3"))
Swept(names) == {f \in names : endsWith(f, <<".","m","p","3">>)}

\* One firing of the interval timer.  order: the listing as readdirSync gives
\* it.  gone: a listed file that an unlink in flight removes before the sweep
\* reaches it (<<>> for none); statSync then throws and the catch ends the sweep.
Sweep(order, gone) ==
  /\ up
  /\ timer = 0
  /\ timer' = SweepEveryMin
  /\ LET dir == <<"/","t","m","p">>
         now == DateNow
         stop == IF gone = <<>> THEN Len(order) + 1
                 ELSE CHOOSE i \in DOMAIN order : pathJoin(dir, order[i]) = gone
         reached == {pathJoin(dir, order[i]) : i \in 1..(stop - 1)}
         old == {p \in reached : Stale(now, fs[p].mtime)}
     IN  /\ Range(order) = Swept(readdirSync(dir))
         /\ IF gone = <<>>
            THEN /\ unlinks' = unlinks \cup old
                 /\ UNCHANGED fs
            ELSE /\ \E i \in DOMAIN order : pathJoin(dir, order[i]) = gone
                 /\ gone \in unlinks
                 /\ unlinks' = (unlinks \ {gone}) \cup old
                 /\ fs' = [fs EXCEPT ![gone] = NoFile]
  /\ UNCHANGED <<streamed, streams, inflight, last, up, totalHits, stalled>>

\* the clock: the time of one sweep interval passes, unless the timer is due,
\* which fires first
Tick ==
  /\ timer > 0
  /\ timer' = timer - SweepEveryMin
  /\ fs' = [p \in DOMAIN fs |->
              IF fs[p].exists /\ fs[p].mtime - SweepEveryMin >= -Horizon
              THEN [fs[p] EXCEPT !.mtime = @ - SweepEveryMin]
              ELSE fs[p]]
  /\ UNCHANGED <<streamed, streams, unlinks, inflight, last, up, totalHits, stalled>>

\* the client of a stream goes away before the end: pipe unpipes the response
\* and leaves the read stream open and paused; it never ends, so it never
\* emits 'close'
ClientAbort(p) ==
  /\ up
  /\ streams[p] > 0
  /\ streams' = [streams EXCEPT ![p] = @ - 1]
  /\ stalled' = stalled \cup {p}
  /\ UNCHANGED <<fs, streamed, unlinks, inflight, last, up, timer, totalHits>>

\* ------------------------------------------------------ rate limiter
\* Root as if the route were not registered: express answers 404
RootNotFound ==
  /\ up
  /\ last' = [NoReply EXCEPT !.route = "root", !.status = 404]
  /\ UNCHANGED <<fs, streamed, streams, unlinks, inflight, up, timer, stalled>>

\* app.get("/"): res.send("Backend OK")
Root ==
  /\ up
  /\ last' = [NoReply EXCEPT !.route = "root", !.status = 200,
                              !.message = <<"B","a","c","k","e","n","d"," ","O","K">>]
  /\ UNCHANGED <<fs, streamed, streams, unlinks, inflight, up, timer, stalled>>

\* the answer of express-rate-limit to a request over the limit
TooMany ==
  [NoReply EXCEPT !.route = "limit", !.status = 429,
                  !.message = <<"T","o","o"," ","m","a","n","y"," ","r","e","q","u","e","s","t","s",","," ","p","l","e","a","s","e"," ","t","r","y"," ","a","g","a","i","n"," ","l","a","t","e","r",".">>]

\* Limited with the count compared before the request is counted: one
\* request more than max gets through
LimitedInclusive(c, H) ==
  /\ up
  /\ totalHits[c] < RateMax + MaxOver
  /\ totalHits' = [totalHits EXCEPT ![c] = @ + 1]
  /\ IF totalHits[c] <= RateMax
     THEN H
     ELSE /\ last' = TooMany
          /\ UNCHANGED <<fs, streamed, streams, unlinks, inflight, up, timer, stalled>>

\* The middleware of lines 20-27, ahead of every route: a request of client c
\* is counted, and handler H runs for it if the count is within max.
Limited(c, H) ==
  /\ up
  /\ totalHits[c] < RateMax + MaxOver
  /\ totalHits' = [totalHits EXCEPT ![c] = @ + 1]
  /\ IF totalHits[c] + 1 <= RateMax
     THEN H
     ELSE /\ last' = TooMany
          /\ UNCHANGED <<fs, streamed, streams, unlinks, inflight, up, timer, stalled>>

\* windowMs: the window of client c ends and its count starts again
WindowReset(c) ==
  /\ up
  /\ totalHits[c] > 0
  /\ totalHits' = [totalHits EXCEPT ![c] = 0]
  /\ UNCHANGED <<fs, streamed, streams, unlinks, inflight, last, up, timer, stalled>>

\* ------------------------------------------------------ specification
Tickets == BagToSet(inflight)

\* the yt-dlp child and the continuation of the handler on the mp3 path
Extract(errors, headers) ==
  \/ \E t \in Tickets, size \in {0, 1} : ExtractorWrite(t, size)
  \/ \E t \in Tickets, h \in headers, raced \in BOOLEAN : ExtractReturn(t, h, raced)
  \/ \E t \in Tickets, err \in errors : ExtractThrow(t, err)

\* the continuation of the handler on the resolve path
Resolve(outputs, errors) ==
  \/ \E t \in Tickets, out \in outputs : ResolveReturn(t, out)
  \/ \E t \in Tickets, err \in errors : ResolveThrow(t, err)

\* the file route, the thread pool, the janitor and the clock
Files ==
  \/ \E g \in GetIds, raced \in BOOLEAN : FileGet(g, raced) /\ UNCHANGED totalHits
  \/ \E p \in Paths : StreamClose(p)
  \/ \E p \in Paths : UnlinkDone(p)
  \/ \E order \in Orders(Swept(readdirSync(<<"/","t","m","p">>))), gone \in {<<>>} \cup unlinks :
       Sweep(order, gone)
  \/ Tick

\* the life of the temp files: mp3 requests, the file route, the janitor
Next ==
  \/ \E b \in CoreBodies : PostDownload(b) /\ UNCHANGED totalHits
  \/ Extract(CoreErrors, CoreHeaders)
  \/ Files

Spec == Init /\ [][Next]_vars

\* the download handler alone, on every request of the input sets, sent by a
\* client that waits for the answer to one request before it sends the next
NextApi ==
  \/ \E b \in Bodies : inflight = EmptyBag /\ PostDownload(b) /\ UNCHANGED totalHits
  \/ Extract(ToolErrors, HeaderSets)
  \/ Resolve(Outputs, ToolErrors)

SpecApi == Init /\ [][NextApi]_vars


\* the limiter ahead of the three routes, with the work the requests start
NextLimit ==
  \/ \E c \in Clients : Limited(c, Root)
  \/ \E c \in Clients, b \in CoreBodies : Limited(c, PostDownload(b))
  \/ \E c \in Clients, g \in NanoIds : Limited(c, FileGet(g, FALSE))
  \/ \E c \in Clients : WindowReset(c)
  \/ \E t \in Tickets : ExtractorWrite(t, 1)
  \/ \E t \in Tickets : ExtractReturn(t, NoHeaders, FALSE)
  \/ \E p \in Paths : StreamClose(p)
  \/ \E p \in Paths : UnlinkDone(p)

SpecLimit == Init /\ [][NextLimit]_vars

\* nanoid returns an id under which no file exists, no deletion is in flight
\* and no stream is open
PostFresh(b) ==
  /\ PostDownload(b)
  /\ UNCHANGED totalHits
  /\ LET file == outFile(last'.id)
     IN  last'.id # <<>> =>
           /\ ~fs[file].exists /\ file \notin unlinks
           /\ streams[file] = 0 /\ file \notin stalled

\* yt-dlp ends on the mp3 path, one way or the other
ExtractEnds ==
  \/ \E t \in Tickets, raced \in BOOLEAN : ExtractReturn(t, NoHeaders, raced)
  \/ \E t \in Tickets, err \in CoreErrors : ExtractThrow(t, err)

\* the timer of the janitor fires
SweepFires ==
  \E order \in Orders(Swept(readdirSync(<<"/","t","m","p">>))), gone \in {<<>>} \cup unlinks :
    Sweep(order, gone)

\* the temp files over time, with clients that may leave a download
NextLive ==
  \/ \E b \in CoreBodies : PostFresh(b)
  \/ \E t \in Tickets, size \in {0, 1} : ExtractorWrite(t, size)
  \/ ExtractEnds
  \/ \E g \in NanoIds, raced \in BOOLEAN : FileGet(g, raced) /\ UNCHANGED totalHits
  \/ \E p \in Paths : StreamClose(p)
  \/ \E p \in Paths : ClientAbort(p)
  \/ \E p \in Paths : UnlinkDone(p)
  \/ SweepFires
  \/ Tick

\* What is bound to happen: a stream that can close does, an unlink in flight
\* completes, yt-dlp ends, the clock runs and the timer fires.
Fairness ==
  /\ \A p \in Paths : WF_vars(StreamClose(p))
  /\ \A p \in Paths : WF_vars(UnlinkDone(p))
  /\ WF_vars(ExtractEnds)
  /\ WF_vars(SweepFires)
  /\ WF_vars(Tick)

SpecLive == Init /\ [][NextLive]_vars /\ Fairness
\* ------------------------------------------------------------- claims
HasPrefix(s, p) == Len(s) >= Len(p) /\ SubSeq(s, 1, Len(p)) = p

\* p is an entry of /tmp itself
InTmp(p) == HasPrefix(p, <<"/","t","m","p","/">>) /\ "/" \notin Range(SubSeq(p, 6, Len(p)))

\* a step of the interval timer
SweepStep == timer = 0 /\ timer' = SweepEveryMin

\* the .mp3 entries of /tmp that are more than 30 minutes old
OldMp3s ==
  {p \in DOMAIN fs : /\ fs[p].exists /\ InTmp(p) /\ HasPrefix(p, <<"/","t","m","p","/">>)
                     /\ endsWith(p, <<".","m","p","3">>)
                     /\ DateNow - fs[p].mtime > MaxAgeMin}

\* C1: a temp file is streamed to at most one request: no GET /file/{id} is
\* answered with the stream of a file of which a stream was started before,
\* whether that one is still open or closed.
C1_StreamedOnce ==
  [][\A p \in Paths : streams'[p] > streams[p] => p \notin streamed]_vars

\* the platform of body b, as the handler reads it, is none of the four names
PlatformOutside(b) ==
  toLowerCase(String(OrElse(b.platform, Str(<<>>))))
    \notin {<<"y","o","u","t","u","b","e">>, <<"i","n","s","t","a","g","r","a","m">>, <<"t","i","k","t","o","k">>, <<"t","w","i","t","t","e","r">>}

Answered(r) == r.route = "download" /\ r.status # 0

\* C2: a POST /api/download whose platform is outside the four names is
\* answered 400, whatever its url, format and quality are.
C2_BadPlatformIs400 ==
  (Answered(last) /\ PlatformOutside(last.req)) => last.status = 400

\* C3: a POST /api/download whose url does not parse or whose host is not in
\* the allow-list is answered 400, with a valid platform or not.
C3_BadUrlIs400 ==
  (Answered(last) /\ ~isAllowedUrl(last.req.url)) => last.status = 400

\* C4: every .mp3 file of /tmp that is more than 30 minutes old at a sweep is
\* deleted by that sweep: its unlink is in flight, or the file is gone, when
\* the sweep ends.
C4_SweepDeletesAllOld ==
  [][SweepStep => \A p \in OldMp3s : p \in unlinks' \/ ~fs'[p].exists]_vars

\* C5: a sweep asks for the deletion only of files that are more than 30
\* minutes old when it examines them.
C5_SweepSparesYoung ==
  [][SweepStep =>
       \A p \in unlinks' \ unlinks :
         fs[p].exists /\ DateNow - fs[p].mtime > MaxAgeMin]_vars

\* a sweep has just asked for the deletion of a file that was never streamed,
\* and left alone a temp file that is 30 minutes old or younger
C5_Witness ==
  /\ timer = SweepEveryMin
  /\ \E p \in unlinks : fs[p].exists /\ p \notin streamed
  /\ \E q \in DOMAIN fs :
       /\ fs[q].exists /\ endsWith(q, <<".","m","p","3">>) /\ q \notin unlinks
       /\ DateNow - fs[q].mtime = MaxAgeMin

\* the positions of id whose character is in [A-Za-z0-9_-]
Kept(id) ==
  {i \in DOMAIN id :
     id[i] \in Range(UpperAlpha) \cup Range(LowerAlpha) \cup Range(Digits) \cup {"_", "-"}}

\* s is id without the characters outside [A-Za-z0-9_-]
IsStripped(s, id) ==
  /\ Len(s) = Cardinality(Kept(id))
  /\ \A i \in Kept(id) : s[Cardinality({j \in Kept(id) : j <= i})] = id[i]

\* C6: the path the file route tests, reads or deletes is /tmp/<s>.mp3 with s
\* the id stripped of every character outside [A-Za-z0-9_-]; it is an entry of
\* /tmp, and the file outside /tmp is never touched.
C6_OnlySanitizedTmpPath ==
  /\ last.route = "file" =>
       /\ HasPrefix(last.path, <<"/","t","m","p","/">>) /\ endsWith(last.path, <<".","m","p","3">>)
       /\ IsStripped(SubSeq(last.path, 6, Len(last.path) - 4), last.param)
       /\ InTmp(last.path)
  /\ \A p \in DOMAIN fs : (streams[p] > 0 \/ p \in streamed \/ p \in unlinks) => InTmp(p)
  /\ fs[<<"/","e","t","c","/","p","a","s","s","w","d">>] = [exists |-> TRUE, size |-> 1, mtime |-> -Horizon]

\* an id with path separators was served the temp file of its stripped form
C6_Witness ==
  /\ last.route = "file" /\ last.status = 200
  /\ "/" \in Range(last.param) /\ "." \in Range(last.param)

\* the :id of the file route in a link
LinkId(url) == SubSeq(url, LastIdx(url, {"/"}) + 1, Len(url))

IsLink(r) == r.route = "download" /\ r.success = "true" /\ r.id # <<>>

Given(v) == v.t = "string" /\ v.s # <<>>

\* <proto>://<host> of the forwarded headers, falling back to https and Host
Origin(h) ==
  (IF Given(h.xfproto) THEN h.xfproto.s ELSE <<"h","t","t","p","s">>) \o <<":","/","/">>
    \o (IF Given(h.xfhost) THEN h.xfhost.s ELSE IF Given(h.host) THEN h.host.s ELSE <<>>)

\* the link of response r is <origin>/file/<id> for the 10-character id of the
\* request, and the file route maps that id to the request's output file
LinkShape(r) ==
  /\ r.status = 200 /\ r.message = <<>>
  /\ Len(r.id) = IdLen
  /\ r.downloadUrl = Origin(r.headers) \o <<"/","f","i","l","e","/">> \o r.id
  /\ outFile(Sanitize(LinkId(r.downloadUrl))) = outFile(r.id)

\* the GET of the link that response r carries, on a file never streamed yet
FirstGetOf(r) ==
  /\ IsLink(r)
  /\ outFile(r.id) \notin streamed
  /\ \E raced \in BOOLEAN : FileGet(LinkId(r.downloadUrl), raced)

Streams200(r, file) ==
  /\ r.route = "file" /\ r.status = 200 /\ r.contentType = <<"a","u","d","i","o","/","m","p","e","g">>
  /\ r.path = file

HttpPrefixes == {<<"h","t","t","p",":","/","/">>, <<"h","t","t","p","s",":","/","/">>}

\* l matches ^https?:// as written, and without regard to case
MatchesExact(l) == \E p \in HttpPrefixes : HasPrefix(l, p)
MatchesAnyCase(l) == \E p \in HttpPrefixes : HasPrefix(toLowerCase(l), p)

\* the non-empty lines of a yt-dlp output
LinesOf(out) == SelectSeq(split(out), LAMBDA l : l # <<>>)

\* response r is what C8 states for output out; the link is held to
\* ^https?:// as written if exact, and without regard to case if not
Resolved(r, out, exact) ==
  LET L == LinesOf(out)
      M == {i \in DOMAIN L : MatchesAnyCase(L[i])}
  IN  IF M = {}
      THEN /\ r.status = 200 /\ r.success = "false"
           /\ r.message = <<"C","o","u","l","d"," ","n","o","t"," ","r","e","s","o","l","v","e"," ","m","e","d","i","a"," ","U","R","L",".">>
      ELSE /\ r.status = 200 /\ r.success = "true"
           /\ r.downloadUrl = L[CHOOSE i \in M : \A j \in M : i <= j]
           /\ IF exact THEN MatchesExact(r.downloadUrl)
              ELSE MatchesAnyCase(r.downloadUrl)

\* C8 as stated: on the resolve path the link is the first non-empty line that
\* matches the URL pattern, and it matches ^https?://; with no such line the
\* answer is 200, success false, "Could not resolve media URL.".
C8_LinkMatchesExactly ==
  [][\A t \in Tickets, out \in Outputs :
       ResolveReturn(t, out) => Resolved(last', out, TRUE)]_vars

\* C8, amended: the same, the link matching ^https?:// without regard to case.
C8_FirstHttpLine ==
  [][\A t \in Tickets, out \in Outputs :
       ResolveReturn(t, out) => Resolved(last', out, FALSE)]_vars

\* the resolve path answered with a link taken from the output
C8_Witness ==
  /\ Answered(last) /\ last.id = <<>> /\ last.success = "true"
  /\ MatchesAnyCase(last.downloadUrl)

\* C9: when yt-dlp has returned and the output file is missing or empty, the
\* answer is 200, success false, "MP3 conversion failed." and carries no link;
\* a link is given only for a file seen to exist and not to be empty.
C9_MissingFileIsSoftFailure ==
  [][\A t \in Tickets, h \in CoreHeaders, raced \in BOOLEAN :
       ExtractReturn(t, h, raced) =>
         /\ (~fs'[outFile(t.id)].exists \/ fs'[outFile(t.id)].size = 0)
              => /\ last'.status = 200 /\ last'.success = "false"
                 /\ last'.message = <<"M","P","3"," ","c","o","n","v","e","r","s","i","o","n"," ","f","a","i","l","e","d",".">>
                 /\ last'.downloadUrl = <<>>
         /\ last'.success = "true"
              => fs[outFile(t.id)].exists /\ fs[outFile(t.id)].size > 0]_vars

\* the text the catch block reports for err
Reported(err) ==
  IF Given(err.stderr) THEN err.stderr.s
  ELSE IF Given(err.message) THEN err.message.s
  ELSE <<"S","e","r","v","e","r"," ","e","r","r","o","r">>

\* C10: what the handler throws is answered 500 with success false and the
\* first 400 characters of the error's stderr, else of its message, else
\* "Server error"; the process survives.
C10_ThrowIs500 ==
  last.thrown =>
    /\ up
    /\ last.route = "download" /\ last.status = 500 /\ last.success = "false"
    /\ last.downloadUrl = <<>>
    /\ Len(last.message) <= MsgLimit
    /\ last.message = SubSeq(Reported(last.err), 1, Len(last.message))
    /\ Len(Reported(last.err)) <= MsgLimit => last.message = Reported(last.err)
    /\ Len(Reported(last.err)) > MsgLimit => Len(last.message) = MsgLimit

\* a failure of yt-dlp with more than 400 characters of stderr was answered
C10_Witness ==
  /\ last.thrown /\ Given(last.err.stderr)
  /\ Len(last.err.stderr.s) > MsgLimit /\ Len(last.message) = MsgLimit


\* the health check answered a request
BackendOK(r) == r.route = "root" /\ r.status = 200 /\ r.message = <<"B","a","c","k","e","n","d"," ","O","K">>

\* C11 as stated: every GET / is answered 200 with the body "Backend OK",
\* whatever number of requests the client has sent in the window.
C11_RootAlways200 ==
  [][\A c \in Clients : Limited(c, Root) => BackendOK(last')]_vars

\* C11, amended: a GET / is answered 200 with the body "Backend OK" if it is
\* among the first 15 requests of its client in the window, and 429 if not.
C11_RootIs200WithinLimit ==
  [][\A c \in Clients :
       Limited(c, Root) =>
         IF totalHits[c] < RateMax THEN BackendOK(last')
         ELSE last'.route = "limit" /\ last'.status = 429]_vars

\* the 15th request of a client in its window was a GET / and got 200
C11_Witness ==
  /\ BackendOK(last)
  /\ \E c \in Clients : totalHits[c] = RateMax

\* what a route handler may change: the files, the streams, the deletions and
\* the requests awaiting yt-dlp
Effects == <<fs, streamed, streams, unlinks, inflight, stalled, up>>

\* C12: of the requests of one client in one window of the limiter the first
\* 15 alone reach a route handler: a request counted 16th or later is answered
\* 429, starts no extraction, and creates, serves and deletes no file.
C12_SixteenthIsStopped ==
  [][\A c \in Clients :
       (totalHits'[c] = totalHits[c] + 1 /\ totalHits[c] >= RateMax)
         => /\ last' = TooMany
            /\ UNCHANGED Effects]_vars

\* a client over its limit was answered 429 while a temp file exists and the
\* other client is within its limit
C12_Witness ==
  /\ last = TooMany
  /\ \E c, d \in Clients :
       /\ totalHits[c] > RateMax + 1
       /\ totalHits[d] > 0 /\ totalHits[d] < RateMax
  /\ \E p \in DOMAIN fs : fs[p].exists /\ endsWith(p, <<".","m","p","3">>)

\* no temp file exists under id and no request awaiting yt-dlp writes under it
FreshId(id) ==
  /\ ~fs[outFile(id)].exists
  /\ \A t \in Tickets : t.id # id

\* C13: the id given to an mp3 request is not the id of a temp file that
\* exists or of a request whose file is still being written.
C13_IdsAreFresh ==
  [][\A b \in CoreBodies :
       (PostDownload(b) /\ last'.id # <<>>) => FreshId(last'.id)]_vars

\* C14: a deletion race between the janitor and the serve path, or between two
\* deletions of the serve path, neither stops the process nor reaches a client
\* as an error: the process stays up, and the file route answers 200 or 404.
C14_DeletionRacesAreSilent ==
  /\ up
  /\ last.route = "file" => last.status \in {200, 404}

\* the temp files of the mp3 requests
TempFiles == {outFile(id) : id \in NanoIds}

\* every read stream started on p has come to its 'close', the event on which
\* the serve path deletes the file
AllClosed(p) == streams[p] = 0 /\ p \notin stalled

\* C15: every GET /file/{id} that started a stream is followed by the serve
\* path's own attempt to delete the file, however the download ends: while
\* the process is up, a stream that is open comes to its 'close'.
C15_StreamEndsInUnlink ==
  \A p \in TempFiles : streams[p] > 0 ~> (AllClosed(p) \/ ~up)

\* C16: every temp file an mp3 request wrote is deleted in the end, while the
\* process is up and its timer fires.
C16_EveryFileIsDeleted ==
  \A p \in TempFiles : fs[p].exists ~> (~fs[p].exists \/ ~up)

\* the urls of the inputs that parse and whose host is in the allow-list
AllowedUrlInputs ==
  {Str(<<"h","t","t","p","s",":","/","/","y","o","u","t","u",".","b","e","/","a","b","c","1","2","3">>), Str(<<"H","T","T","P","S",":","/","/","W","W","W",".","Y","o","u","T","u","b","e",".","c","o","m","/","w">>)}

\* C17: yt-dlp runs only for a request that passed validation: every request
\* awaiting yt-dlp has a platform among the four names and a url whose host is
\* in the allow-list.
C17_ExtractorAfterValidation ==
  \A t \in Tickets :
    /\ ~PlatformOutside(t.req)
    /\ t.req.url \in AllowedUrlInputs
    /\ isAllowedUrl(t.req.url)

\* yt-dlp runs to resolve a url written in capitals, for a platform given in
\* capitals
C17_Witness ==
  \E t \in Tickets :
    /\ t.id = <<>>
    /\ t.req.url = Str(<<"H","T","T","P","S",":","/","/","W","W","W",".","Y","o","u","T","u","b","e",".","c","o","m","/","w">>)
    /\ t.req.platform = Str(<<"Y","o","u","T","u","b","e">>)

\* body b asks for mp3, in small letters or capitals
Mp3Asked(b) == b.format.t = "string" /\ toLowerCase(b.format.s) = <<"m","p","3">>

\* C18: while the request dealt with fails validation or asks for a format
\* other than mp3 (compared as the handler reads it, in lower case), no file
\* of /tmp is created, changed or deleted and no deletion is started.
C18_OnlyMp3TouchesFiles ==
  [][(\/ ~Mp3Asked(last'.req)
      \/ PlatformOutside(last'.req)
      \/ ~isAllowedUrl(last'.req.url))
       => UNCHANGED <<fs, unlinks>>]_vars

\* a request for another format was answered with a link while a temp file of
\* an earlier mp3 request exists
C18_Witness ==
  /\ Answered(last) /\ last.success = "true" /\ last.id = <<>>
  /\ ~Mp3Asked(last.req)
  /\ \E p \in TempFiles : fs[p].exists

====
